---- MODULE Spec2Model ----
(***************************************************************************)
(* Update logic of the ElegantRL agents of elegantrl/agents/AgentDQN.py    *)
(* (AgentDQN, AgentDoubleDQN, AgentDuelingDQN, AgentD3QN and their Q       *)
(* networks) and elegantrl/agents/AgentTD3.py (AgentTD3, Actor,            *)
(* CriticTwin).                                                            *)
(*                                                                         *)
(* Numbers are exact integers (finite values only).  A tensor is a matrix: *)
(* a sequence of rows; a 1-D tensor of n entries is the 1 x n matrix, which*)
(* is how PyTorch broadcasting treats it against a 2-D tensor.             *)
(* A mean that is returned as a Python float is kept as the exact fraction *)
(* [num, den].                                                             *)
(***************************************************************************)
EXTENDS Integers, Sequences, FiniteSets, TLC

VARIABLES agent, params, first_t, last, hist, probe, twin

vars == <<agent, params, first_t, last, hist, probe, twin>>

-----------------------------------------------------------------------------
(* Bounds of the model *)

\* update calls followed on one agent
MaxCalls == 2
\* largest batch_size passed to an update call
MaxBatch == 2
\* largest integer update_t passed to an update call
MaxT == 1
\* largest update_freq of the configuration (args.update_freq)
MaxFreq == 2
\* action_dim of the discrete agents (number of Q outputs)
ActionDim == 2
\* num_ensembles of CriticTwin (args.num_ensembles)
NumEnsembles == 2
\* soft_update_tau = TauNum / TauDen
TauNum == 1
TauDen == 2
\* th.rand(1) is drawn from the grid {0, 1/RandDen, .., (RandDen-1)/RandDen}
RandDen == 2

-----------------------------------------------------------------------------
(* Arithmetic helpers *)

RECURSIVE Pow(_, _)
Pow(b, n) == IF n = 0 THEN 1 ELSE b * Pow(b, n - 1)

Max2(a, b) == IF a > b THEN a ELSE b
Min2(a, b) == IF a < b THEN a ELSE b
Abs(a) == IF a < 0 THEN 0 - a ELSE a

RECURSIVE SumSeq(_)
SumSeq(s) == IF s = <<>> THEN 0 ELSE Head(s) + SumSeq(Tail(s))

RECURSIVE MaxSeq(_)
MaxSeq(s) == IF Len(s) = 1 THEN s[1] ELSE Max2(Head(s), MaxSeq(Tail(s)))

RECURSIVE MinSeq(_)
MinSeq(s) == IF Len(s) = 1 THEN s[1] ELSE Min2(Head(s), MinSeq(Tail(s)))

\* every value a network or the buffer produces is a multiple of Granule, so
\* that the mean over the ensemble heads and over the actions is exact
Granule == NumEnsembles * ActionDim

\* live parameters are 0 or Unit; Unit leaves room for MaxCalls soft updates
Unit == Granule * Pow(TauDen, MaxCalls)

ParamVals == {0, Unit}

-----------------------------------------------------------------------------
(* Tensors *)

Rows(m) == Len(m)
Cols(m) == Len(m[1])

Vec(s) == <<s>>
Col(s) == [i \in 1..Len(s) |-> <<s[i]>>]

\* torch broadcasting of two tensors of at most two dimensions
Broadcastable(x, y) ==
    /\ (Rows(x) = Rows(y) \/ Rows(x) = 1 \/ Rows(y) = 1)
    /\ (Cols(x) = Cols(y) \/ Cols(x) = 1 \/ Cols(y) = 1)

BIdx(i, n) == IF n = 1 THEN 1 ELSE i

Apply(op, a, b) ==
    CASE op = "add" -> a + b
      [] op = "mul" -> a * b
      [] op = "min" -> Min2(a, b)
      [] op = "max" -> Max2(a, b)
      [] op = "absdiff" -> Abs(a - b)

Elementwise(op, x, y) ==
    [i \in 1..Max2(Rows(x), Rows(y)) |->
        [j \in 1..Max2(Cols(x), Cols(y)) |->
            Apply(op, x[BIdx(i, Rows(x))][BIdx(j, Cols(x))],
                      y[BIdx(i, Rows(y))][BIdx(j, Cols(y))])]]

TAdd(x, y) == Elementwise("add", x, y)
TMul(x, y) == Elementwise("mul", x, y)
TMin(x, y) == Elementwise("min", x, y)
TScale(c, x) == [i \in 1..Rows(x) |-> [j \in 1..Cols(x) |-> c * x[i][j]]]

\* t.max(dim=1, keepdim=True)[0] and t.min(dim=1, keepdim=True)[0]
MaxDim1Keep(m) == [i \in 1..Rows(m) |-> <<MaxSeq(m[i])>>]
MinDim1Keep(m) == [i \in 1..Rows(m) |-> <<MinSeq(m[i])>>]

\* t.squeeze(1) of a [B, 1] tensor: the 1-D tensor of B entries
Squeeze1(m) == Vec([i \in 1..Rows(m) |-> m[i][1]])

\* t.gather(1, index) with index of shape [B, 1] (0-based entries)
Gather1(m, index) == [i \in 1..Rows(m) |-> <<m[i][index[i][1] + 1]>>]

\* t.repeat(1, n): the columns tiled n times
Repeat1(m, n) ==
    [i \in 1..Rows(m) |->
        [j \in 1..(Cols(m) * n) |-> m[i][((j - 1) % Cols(m)) + 1]]]

\* t.mean(dim=-1, keepdim=True); the entries are multiples of the row length
MeanDimLastKeep(m) == [i \in 1..Rows(m) |-> <<SumSeq(m[i]) \div Cols(m)>>]

\* t.mean().item(): the exact fraction
SumAll(m) == SumSeq([i \in 1..Rows(m) |-> SumSeq(m[i])])
MeanAll(m) == [nan |-> FALSE, num |-> SumAll(m), den |-> Rows(m) * Cols(m)]

\* th.tensor(th.nan).item()
NaN == [nan |-> TRUE, num |-> 0, den |-> 1]

-----------------------------------------------------------------------------
(* Function-approximator modules *)

\* build_mlp with no hidden layer: one linear layer [w, b] with Len(b) outputs;
\* input unit d has the fixed weight d, output unit k the weight w[k]
WSum(xs) == SumSeq([d \in 1..Len(xs) |-> d * xs[d]])
Linear(layer, x) ==
    [i \in 1..Rows(x) |->
        [k \in 1..Len(layer.b) |-> layer.w[k] * WSum(x[i]) + layer.b[k]]]

\* th.cat((state, action), dim=1)
Cat1(x, y) == [i \in 1..Rows(x) |-> x[i] \o y[i]]

\* tanh: the model keeps its sign, its zero and its bound
tanh(x) == [i \in 1..Rows(x) |-> [j \in 1..Cols(x) |->
               IF x[i][j] > 0 THEN 1 ELSE IF x[i][j] < 0 THEN 0 - 1 ELSE 0]]

\* t.clip(-1.0, 1.0)
clip(x) == [i \in 1..Rows(x) |-> [j \in 1..Cols(x) |-> Max2(0 - 1, Min2(1, x[i][j]))]]

\* t.argmax(dim=1, keepdim=True): the first index of the row's maximum (0-based)
ArgmaxRow(r) == (CHOOSE k \in 1..Len(r) :
                    /\ r[k] = MaxSeq(r)
                    /\ \A l \in 1..(k - 1) : r[l] < r[k]) - 1
ArgmaxDim1Keep(m) == [i \in 1..Rows(m) |-> <<ArgmaxRow(m[i])>>]

\* QNetBase.state_norm: (state - state_avg) / state_std
QNetBase_state_norm(m, state) ==
    [i \in 1..Rows(state) |-> [j \in 1..Cols(state) |->
        (state[i][j] - m.state_avg) \div m.state_std]]

\* ActorBase.state_norm and CriticBase.state_norm (AgentBase.py): the same rule
ActorBase_state_norm(m, state) ==
    [i \in 1..Rows(state) |-> [j \in 1..Cols(state) |->
        (state[i][j] - m.state_avg) \div m.state_std]]

CriticBase_state_norm(m, state) ==
    [i \in 1..Rows(state) |-> [j \in 1..Cols(state) |->
        (state[i][j] - m.state_avg) \div m.state_std]]

QNetwork_forward(m, state) == Linear(m.net, QNetBase_state_norm(m, state))

\* explore_rate = rate / RandDen, th.rand(1) = rand / RandDen,
\* randint: the result of th.randint(action_dim, size=(B, 1))
QNetwork_get_action(m, state, rate, rand, randint) ==
    LET s == QNetBase_state_norm(m, state)
    IN  IF rate < rand
        THEN [branch |-> "argmax", action |-> ArgmaxDim1Keep(Linear(m.net, s))]
        ELSE [branch |-> "randint", action |-> randint]

\* the mean taken over dim=0 (the batch) in the place of dim=1 (the actions)
MeanDim0Keep(m) ==
    <<[j \in 1..Cols(m) |-> SumSeq([i \in 1..Rows(m) |-> m[i][j]]) \div Rows(m)]>>
DuelingValue_dim0(q_val, q_adv) ==
    TAdd(TAdd(q_val, TScale(0 - 1, MeanDim0Keep(q_val))), q_adv)

\* value = q_val - q_val.mean(dim=1, keepdim=True) + q_adv
DuelingValue(q_val, q_adv) ==
    TAdd(TAdd(q_val, TScale(0 - 1, MeanDimLastKeep(q_val))), q_adv)

QNetDuel_forward(m, state) ==
    LET s_enc == Linear(m.net_state, QNetBase_state_norm(m, state))
        q_val == Linear(m.net_val, s_enc)
        q_adv == Linear(m.net_adv, s_enc)
    IN  DuelingValue(q_val, q_adv)

QNetTwin_forward(m, state) ==
    LET s_enc == Linear(m.net_state, QNetBase_state_norm(m, state))
    IN  Linear(m.net_val1, s_enc)

QNetTwin_get_q1_q2(m, state) ==
    LET s_enc == Linear(m.net_state, QNetBase_state_norm(m, state))
    IN  <<Linear(m.net_val1, s_enc), Linear(m.net_val2, s_enc)>>

QNetTwinDuel_forward(m, state) ==
    LET s_enc == Linear(m.net_state, QNetBase_state_norm(m, state))
        q_val == Linear(m.net_val1, s_enc)
        q_adv == Linear(m.net_adv1, s_enc)
    IN  DuelingValue(q_val, q_adv)

QNetTwinDuel_get_q1_q2(m, state) ==
    LET s_enc == Linear(m.net_state, QNetBase_state_norm(m, state))
        q_duel1 == DuelingValue(Linear(m.net_val1, s_enc), Linear(m.net_adv1, s_enc))
        q_duel2 == DuelingValue(Linear(m.net_val2, s_enc), Linear(m.net_adv2, s_enc))
    IN  <<q_duel1, q_duel2>>

Actor_forward(m, state) == tanh(Linear(m.net, ActorBase_state_norm(m, state)))

\* noise: the draw of Normal(action_avg, action_std).sample() minus action_avg
Actor_get_action(m, state, noise) ==
    LET action_avg == tanh(Linear(m.net, ActorBase_state_norm(m, state)))
    IN  clip(TAdd(action_avg, noise))

CriticTwin_get_q_values(m, state, action) ==
    Linear(m.net, Cat1(CriticBase_state_norm(m, state), action))

CriticTwin_forward(m, state, action) ==
    LET s == CriticBase_state_norm(m, state)
        values == CriticTwin_get_q_values(m, s, action)
    IN  MeanDimLastKeep(values)

-----------------------------------------------------------------------------
(* Collaborators of AgentBase.py and replay_buffer.py *)

\* self.gamma (args.gamma, in [0, 1])
GammaVals == {0, 1}

\* the transitions the replay buffer holds: slot 1 is terminal
Buffer ==
    << [state |-> 0, action |-> 0, reward |-> Granule, undone |-> 0,
        unmask |-> 1, next_state |-> 1, is_weight |-> 1],
       [state |-> 1, action |-> 1, reward |-> 2 * Granule, undone |-> 1,
        unmask |-> 1, next_state |-> 0, is_weight |-> 2] >>

Slots == 1..Len(Buffer)

\* buffer.sample(batch_size); idx are the slots the buffer draws.  state, action
\* and next_state have shape [B, 1]; reward, undone, unmask have shape [B]
sample(idx) ==
    [state      |-> Col([i \in 1..Len(idx) |-> Buffer[idx[i]].state]),
     action     |-> Col([i \in 1..Len(idx) |-> Buffer[idx[i]].action]),
     reward     |-> Vec([i \in 1..Len(idx) |-> Buffer[idx[i]].reward]),
     undone     |-> Vec([i \in 1..Len(idx) |-> Buffer[idx[i]].undone]),
     unmask     |-> Vec([i \in 1..Len(idx) |-> Buffer[idx[i]].unmask]),
     next_state |-> Col([i \in 1..Len(idx) |-> Buffer[idx[i]].next_state])]

\* buffer.sample_for_per(batch_size): is_weight and is_index have shape [B]
sample_for_per(idx) ==
    [state      |-> sample(idx).state,
     action     |-> sample(idx).action,
     reward     |-> sample(idx).reward,
     undone     |-> sample(idx).undone,
     unmask     |-> sample(idx).unmask,
     next_state |-> sample(idx).next_state,
     is_weight  |-> Vec([i \in 1..Len(idx) |-> Buffer[idx[i]].is_weight]),
     is_index   |-> Vec(idx)]

\* self.criterion: an elementwise regression loss (reduction="none"); it raises
\* when its two arguments do not broadcast
criterion(x, y) == Elementwise("absdiff", x, y)

\* self.optimizer_backward(optimizer, objective): one step of the optimizer on
\* the parameters it was built over; the model moves them to their other value
optimizer_backward(theta) == Unit - theta

\* self.soft_update: target = tau * live + (1 - tau) * target, parameter-wise
soft_update(target, live) == (TauNum * live + (TauDen - TauNum) * target) \div TauDen

-----------------------------------------------------------------------------
(* Modules as the constructors build them; one integer stands for the trainable
   parameters of a module, state_avg = 0 and state_std = 1 as QNetBase sets them *)

HeadBias(theta, n) == [k \in 1..n |-> IF k % 2 = 1 THEN theta ELSE Unit - theta]
HeadGain(n) == [k \in 1..n |-> Granule]
Encoder == [w |-> <<1>>, b |-> <<0>>]

QNetworkOf(theta) ==
    [state_avg |-> 0, state_std |-> 1,
     net |-> [w |-> HeadGain(ActionDim), b |-> HeadBias(theta, ActionDim)]]

QNetDuelOf(theta) ==
    [state_avg |-> 0, state_std |-> 1, net_state |-> Encoder,
     net_adv |-> [w |-> HeadGain(1), b |-> HeadBias(theta, 1)],
     net_val |-> [w |-> HeadGain(ActionDim), b |-> HeadBias(theta, ActionDim)]]

QNetTwinOf(theta) ==
    [state_avg |-> 0, state_std |-> 1, net_state |-> Encoder,
     net_val1 |-> [w |-> HeadGain(ActionDim), b |-> HeadBias(theta, ActionDim)],
     net_val2 |-> [w |-> HeadGain(ActionDim), b |-> HeadBias(Unit - theta, ActionDim)]]

QNetTwinDuelOf(theta) ==
    [state_avg |-> 0, state_std |-> 1, net_state |-> Encoder,
     net_adv1 |-> [w |-> HeadGain(1), b |-> HeadBias(theta, 1)],
     net_val1 |-> [w |-> HeadGain(ActionDim), b |-> HeadBias(theta, ActionDim)],
     net_adv2 |-> [w |-> HeadGain(1), b |-> HeadBias(Unit - theta, 1)],
     net_val2 |-> [w |-> HeadGain(ActionDim), b |-> HeadBias(Unit - theta, ActionDim)]]

ActorOf(theta) ==
    [state_avg |-> 0, state_std |-> 1,
     net |-> [w |-> <<1>>, b |-> <<2 * theta - Unit>>]]

CriticTwinOf(theta) ==
    [state_avg |-> 0, state_std |-> 1,
     net |-> [w |-> HeadGain(NumEnsembles), b |-> HeadBias(theta, NumEnsembles)]]

\* module(state): the forward of the module's class
ModuleForward(class, theta, state) ==
    CASE class = "QNetwork"     -> QNetwork_forward(QNetworkOf(theta), state)
      [] class = "QNetDuel"     -> QNetDuel_forward(QNetDuelOf(theta), state)
      [] class = "QNetTwin"     -> QNetTwin_forward(QNetTwinOf(theta), state)
      [] class = "QNetTwinDuel" -> QNetTwinDuel_forward(QNetTwinDuelOf(theta), state)

\* the classes that define get_q1_q2
HasGetQ1Q2(class) == class \in {"QNetTwin", "QNetTwinDuel"}

ModuleGetQ1Q2(class, theta, state) ==
    CASE class = "QNetTwin"     -> QNetTwin_get_q1_q2(QNetTwinOf(theta), state)
      [] class = "QNetTwinDuel" -> QNetTwinDuel_get_q1_q2(QNetTwinDuelOf(theta), state)

-----------------------------------------------------------------------------
(* Agent construction *)

Variants == {"AgentDQN", "AgentDoubleDQN", "AgentDuelingDQN", "AgentD3QN", "AgentTD3"}

\* the act_class attribute a subclass sets before it calls AgentDQN.__init__
act_class(variant) ==
    CASE variant = "AgentDoubleDQN"  -> "QNetTwin"
      [] variant = "AgentDuelingDQN" -> "QNetDuel"
      [] variant = "AgentD3QN"       -> "QNetTwinDuel"
      [] OTHER                       -> "unset"

\* AgentDQN.__init__: self.act = self.cri = QNetwork(..),
\* self.act_target = self.cri_target = deepcopy(self.act)
AgentDQN_init(variant, gamma) ==
    [variant |-> variant, act_class |-> act_class(variant), gamma |-> gamma,
     act |-> "QNetwork", cri |-> "QNetwork",
     act_target |-> "QNetwork", cri_target |-> "QNetwork",
     shared |-> TRUE, update_freq |-> 1]

AgentTD3_init(gamma, update_freq) ==
    [variant |-> "AgentTD3", act_class |-> "unset", gamma |-> gamma,
     act |-> "Actor", cri |-> "CriticTwin",
     act_target |-> "Actor", cri_target |-> "CriticTwin",
     shared |-> FALSE, update_freq |-> update_freq]

\* the update methods a variant inherits
UpdateClass(variant) ==
    CASE variant \in {"AgentDQN", "AgentDuelingDQN"}  -> "AgentDQN"
      [] variant \in {"AgentDoubleDQN", "AgentD3QN"}  -> "AgentDoubleDQN"
      [] variant = "AgentTD3"                         -> "AgentTD3"

-----------------------------------------------------------------------------
(* Target computation *)

\* self.cri_target(next_state).max(dim=1, keepdim=True)[0].squeeze(1)
PlainNextQ(q) == Squeeze1(MaxDim1Keep(q))

\* th.max in the place of th.min
TMax(x, y) == Elementwise("max", x, y)
TwinNextQ_max(q1, q2) == Squeeze1(MaxDim1Keep(TMax(q1, q2)))

\* th.min(*self.cri_target.get_q1_q2(next_state)).max(dim=1, keepdim=True)[0].squeeze(1)
TwinNextQ(q1, q2) == Squeeze1(MaxDim1Keep(TMin(q1, q2)))

\* self.cri_target.get_q_values(next_state, next_action).min(dim=1, keepdim=True)[0]
EnsembleNextQ(values) == MinDim1Keep(values)

\* q_label = reward + undone * self.gamma * next_q
QLabel(reward, undone, gamma, next_q) ==
    TAdd(reward, TMul(TScale(gamma, undone), next_q))

-----------------------------------------------------------------------------
(* Update calls.  An update_t is [kind, val]: the Python type of the argument
   and its numeric value.  A call yields a record: how it ended, what it
   sampled, the tensors it computed, the calls it made on the buffer (fed), the
   parameter-changing steps in the order it took them (ops), the parameters
   it leaves and the pair of objectives it returns. *)

\* isinstance(update_t, (int, float))
IsInstanceInt_number(t) == t.kind \in {"int", "bool", "float"}

\* isinstance(update_t, int); bool is a subclass of int
IsInstanceInt(t) == t.kind \in {"int", "bool"}

NoValue == [nan |-> FALSE, num |-> 0, den |-> 0]

\* the call raised `error`: no parameter changed, nothing returned
Raised(error, p, sampled, is_index, reward, undone, q_label) ==
    [outcome |-> error, sampled |-> sampled, is_index |-> is_index,
     reward |-> reward, undone |-> undone, q_label |-> q_label,
     td_error |-> <<>>, is_weight |-> <<>>, fed |-> <<>>, ops |-> <<>>,
     cri |-> p.cri, cri_target |-> p.cri_target,
     act |-> p.act, act_target |-> p.act_target,
     obj_critic |-> NoValue, obj_actor |-> NoValue]

AgentDQN_update_objectives_raw(ag, p, t, idx) ==
    IF ~IsInstanceInt(t)
    THEN Raised("AssertionError", p, "none", <<>>, <<>>, <<>>, <<>>)
    ELSE
    LET b == sample(idx)
        next_q == PlainNextQ(ModuleForward(ag.cri_target, p.cri_target, b.next_state))
        q_label == QLabel(b.reward, b.undone, ag.gamma, next_q)
        q_value == Squeeze1(Gather1(ModuleForward(ag.cri, p.cri, b.state), b.action))
        obj_critic == MeanAll(TMul(criterion(q_value, q_label), b.unmask))
        new_cri == optimizer_backward(p.cri)
        cri_target == soft_update(p.cri_target, new_cri)
        obj_actor == MeanAll(q_value)
    IN  [outcome |-> "ok", sampled |-> "sample", is_index |-> <<>>,
         reward |-> b.reward, undone |-> b.undone, q_label |-> q_label,
         td_error |-> <<>>, is_weight |-> <<>>, fed |-> <<>>,
         ops |-> <<"cri_step", "cri_soft">>,
         cri |-> new_cri, cri_target |-> cri_target,
         act |-> new_cri, act_target |-> cri_target,
         obj_critic |-> obj_critic, obj_actor |-> obj_actor]

AgentDQN_update_objectives_per(ag, p, t, idx) ==
    IF ~IsInstanceInt(t)
    THEN Raised("AssertionError", p, "none", <<>>, <<>>, <<>>, <<>>)
    ELSE
    LET b == sample_for_per(idx)
        next_q == PlainNextQ(ModuleForward(ag.cri_target, p.cri_target, b.next_state))
        q_label == QLabel(b.reward, b.undone, ag.gamma, next_q)
        q_value == Squeeze1(Gather1(ModuleForward(ag.cri, p.cri, b.state), b.action))
        td_error == TMul(criterion(q_value, q_label), b.unmask)
        obj_critic == MeanAll(TMul(td_error, b.is_weight))
        new_cri == optimizer_backward(p.cri)
        cri_target == soft_update(p.cri_target, new_cri)
        obj_actor == MeanAll(q_value)
    IN  [outcome |-> "ok", sampled |-> "sample_for_per", is_index |-> b.is_index,
         reward |-> b.reward, undone |-> b.undone, q_label |-> q_label,
         td_error |-> td_error, is_weight |-> b.is_weight,
         fed |-> <<[is_index |-> b.is_index, td_error |-> td_error]>>,
         ops |-> <<"cri_step", "cri_soft">>,
         cri |-> new_cri, cri_target |-> cri_target,
         act |-> new_cri, act_target |-> cri_target,
         obj_critic |-> obj_critic, obj_actor |-> obj_actor]

AgentDoubleDQN_update_objectives_raw(ag, p, t, idx) ==
    IF ~IsInstanceInt(t)
    THEN Raised("AssertionError", p, "none", <<>>, <<>>, <<>>, <<>>)
    ELSE
    LET b == sample(idx) IN
    IF ~HasGetQ1Q2(ag.cri_target)
    THEN Raised("AttributeError", p, "sample", <<>>, b.reward, b.undone, <<>>)
    ELSE
    LET qs == ModuleGetQ1Q2(ag.cri_target, p.cri_target, b.next_state)
        next_q == TwinNextQ(qs[1], qs[2])
        q_label == QLabel(b.reward, b.undone, ag.gamma, next_q)
    IN
    IF ~HasGetQ1Q2(ag.act)
    THEN Raised("AttributeError", p, "sample", <<>>, b.reward, b.undone, q_label)
    ELSE
    LET q12 == ModuleGetQ1Q2(ag.act, p.act, b.state)
        q_value1 == Squeeze1(Gather1(q12[1], b.action))
        q_value2 == Squeeze1(Gather1(q12[2], b.action))
        obj_critic == MeanAll(TMul(TAdd(criterion(q_value1, q_label),
                                        criterion(q_value2, q_label)), b.unmask))
        new_cri == optimizer_backward(p.cri)
        cri_target == soft_update(p.cri_target, new_cri)
        obj_actor == MeanAll(q_value1)
    IN  [outcome |-> "ok", sampled |-> "sample", is_index |-> <<>>,
         reward |-> b.reward, undone |-> b.undone, q_label |-> q_label,
         td_error |-> <<>>, is_weight |-> <<>>, fed |-> <<>>,
         ops |-> <<"cri_step", "cri_soft">>,
         cri |-> new_cri, cri_target |-> cri_target,
         act |-> new_cri, act_target |-> cri_target,
         obj_critic |-> obj_critic, obj_actor |-> obj_actor]

AgentDoubleDQN_update_objectives_per(ag, p, t, idx) ==
    IF ~IsInstanceInt(t)
    THEN Raised("AssertionError", p, "none", <<>>, <<>>, <<>>, <<>>)
    ELSE
    LET b == sample_for_per(idx) IN
    IF ~HasGetQ1Q2(ag.cri_target)
    THEN Raised("AttributeError", p, "sample_for_per", b.is_index, b.reward, b.undone, <<>>)
    ELSE
    LET qs == ModuleGetQ1Q2(ag.cri_target, p.cri_target, b.next_state)
        next_q == TwinNextQ(qs[1], qs[2])
        q_label == QLabel(b.reward, b.undone, ag.gamma, next_q)
    IN
    IF ~HasGetQ1Q2(ag.act)
    THEN Raised("AttributeError", p, "sample_for_per", b.is_index, b.reward, b.undone, q_label)
    ELSE
    LET q12 == ModuleGetQ1Q2(ag.act, p.act, b.state)
        q_value1 == Squeeze1(Gather1(q12[1], b.action))
        q_value2 == Squeeze1(Gather1(q12[2], b.action))
        td_error == TMul(TAdd(criterion(q_value1, q_label),
                              criterion(q_value2, q_label)), b.unmask)
        obj_critic == MeanAll(TMul(td_error, b.is_weight))
        new_cri == optimizer_backward(p.cri)
        cri_target == soft_update(p.cri_target, new_cri)
        obj_actor == MeanAll(q_value1)
    IN  [outcome |-> "ok", sampled |-> "sample_for_per", is_index |-> b.is_index,
         reward |-> b.reward, undone |-> b.undone, q_label |-> q_label,
         td_error |-> td_error, is_weight |-> b.is_weight,
         fed |-> <<[is_index |-> b.is_index, td_error |-> td_error]>>,
         ops |-> <<"cri_step", "cri_soft">>,
         cri |-> new_cri, cri_target |-> cri_target,
         act |-> new_cri, act_target |-> cri_target,
         obj_critic |-> obj_critic, obj_actor |-> obj_actor]

\* self.act_target.get_action in the place of self.act.get_action
AgentTD3_next_action_target(p, next_state, noise) ==
    Actor_get_action(ActorOf(p.act_target), next_state, noise)

\* next_action = self.act.get_action(next_state, action_std=self.policy_noise_std)
AgentTD3_next_action(p, next_state, noise) ==
    Actor_get_action(ActorOf(p.act), next_state, noise)

\* if update_t % self.update_freq == 0
DelayUpdate(t, update_freq) == t.val % update_freq = 0

AgentTD3_update_objectives_raw(ag, p, t, idx, noise) ==
    IF ~IsInstanceInt(t)
    THEN Raised("AssertionError", p, "none", <<>>, <<>>, <<>>, <<>>)
    ELSE
    LET b == sample(idx)
        next_action == AgentTD3_next_action(p, b.next_state, noise)
        next_q == EnsembleNextQ(CriticTwin_get_q_values(CriticTwinOf(p.cri_target),
                                                        b.next_state, next_action))
        q_label == QLabel(b.reward, b.undone, ag.gamma, next_q)
        q_values == CriticTwin_get_q_values(CriticTwinOf(p.cri), b.state, b.action)
        q_labels == Repeat1(q_label, Cols(q_values))
    IN
    IF ~Broadcastable(q_values, q_labels)
    THEN Raised("RuntimeError", p, "sample", <<>>, b.reward, b.undone, q_label)
    ELSE
    IF ~Broadcastable(criterion(q_values, q_labels), b.unmask)
    THEN Raised("RuntimeError", p, "sample", <<>>, b.reward, b.undone, q_label)
    ELSE
    LET obj_critic == MeanAll(TMul(criterion(q_values, q_labels), b.unmask))
        new_cri == optimizer_backward(p.cri)
        cri_target == soft_update(p.cri_target, new_cri)
        action_pg == Actor_forward(ActorOf(p.act), b.state)
        new_act == optimizer_backward(p.act)
        delay == DelayUpdate(t, ag.update_freq)
    IN  [outcome |-> "ok", sampled |-> "sample", is_index |-> <<>>,
         reward |-> b.reward, undone |-> b.undone, q_label |-> q_label,
         td_error |-> <<>>, is_weight |-> <<>>, fed |-> <<>>,
         ops |-> IF delay THEN <<"cri_step", "cri_soft", "act_step", "act_soft">>
                          ELSE <<"cri_step", "cri_soft">>,
         cri |-> new_cri, cri_target |-> cri_target,
         act |-> IF delay THEN new_act ELSE p.act,
         act_target |-> IF delay THEN soft_update(p.act_target, new_act)
                                 ELSE p.act_target,
         obj_critic |-> obj_critic,
         obj_actor |-> IF delay
                       THEN MeanAll(CriticTwin_forward(CriticTwinOf(new_cri),
                                                       b.state, action_pg))
                       ELSE NaN]

AgentTD3_update_objectives_per(ag, p, t, idx, noise) ==
    IF ~IsInstanceInt(t)
    THEN Raised("AssertionError", p, "none", <<>>, <<>>, <<>>, <<>>)
    ELSE
    LET b == sample_for_per(idx)
        next_action == AgentTD3_next_action(p, b.next_state, noise)
        next_q == EnsembleNextQ(CriticTwin_get_q_values(CriticTwinOf(p.cri_target),
                                                        b.next_state, next_action))
        q_label == QLabel(b.reward, b.undone, ag.gamma, next_q)
        q_values == CriticTwin_get_q_values(CriticTwinOf(p.cri), b.state, b.action)
        q_labels == Repeat1(q_label, Cols(q_values))
    IN
    IF ~Broadcastable(q_values, q_labels)
    THEN Raised("RuntimeError", p, "sample_for_per", b.is_index, b.reward, b.undone, q_label)
    ELSE
    LET td_error == TMul(MeanDimLastKeep(criterion(q_values, q_labels)), b.unmask)
        obj_critic == MeanAll(TMul(td_error, b.is_weight))
        new_cri == optimizer_backward(p.cri)
        cri_target == soft_update(p.cri_target, new_cri)
        action_pg == Actor_forward(ActorOf(p.act), b.state)
        new_act == optimizer_backward(p.act)
        delay == DelayUpdate(t, ag.update_freq)
    IN  [outcome |-> "ok", sampled |-> "sample_for_per", is_index |-> b.is_index,
         reward |-> b.reward, undone |-> b.undone, q_label |-> q_label,
         td_error |-> td_error, is_weight |-> b.is_weight,
         fed |-> <<[is_index |-> b.is_index, td_error |-> td_error]>>,
         ops |-> IF delay THEN <<"cri_step", "cri_soft", "act_step", "act_soft">>
                          ELSE <<"cri_step", "cri_soft">>,
         cri |-> new_cri, cri_target |-> cri_target,
         act |-> IF delay THEN new_act ELSE p.act,
         act_target |-> IF delay THEN soft_update(p.act_target, new_act)
                                 ELSE p.act_target,
         obj_critic |-> obj_critic,
         obj_actor |-> IF delay
                       THEN MeanAll(CriticTwin_forward(CriticTwinOf(new_cri),
                                                       b.state, action_pg))
                       ELSE NaN]

-----------------------------------------------------------------------------
(* The agent under a sequence of update calls *)

\* the draws of dist.sample() around action_avg, the same for every row
NoiseVals == {0, 1}

\* self.gamma of the agents followed
AgentGammas == {1}

NoCall == [path |-> "none"]
NoProbe == [op |-> "none"]
NoTwin == [last |-> NoCall]

ParamsOf(theta_act, theta_cri) ==
    [act |-> theta_act, cri |-> theta_cri,
     act_target |-> theta_act, cri_target |-> theta_cri]

Range(s) == {s[i] : i \in 1..Len(s)}

\* what the caller sees of a call
Outcome(t, r) ==
    [update_t |-> t, outcome |-> r.outcome,
     actor_step |-> "act_step" \in Range(r.ops), obj_actor |-> r.obj_actor]

\* the training loop passes consecutive integers, starting at first_t
NextT == first_t + Cardinality({i \in 1..Len(hist) : hist[i].update_t.kind = "int"})

\* the update_t of the next call: the loop's integer, or a float
UpdateTs == {[kind |-> "int", val |-> NextT], [kind |-> "float", val |-> NextT]}

\* the slots the buffer draws for a batch: batch_size slots from `start` on
Batch(start, batch_size) ==
    [i \in 1..batch_size |-> ((start + i - 2) % Len(Buffer)) + 1]

Init ==
    /\ \E variant \in Variants, gamma \in AgentGammas, update_freq \in 1..MaxFreq,
          theta_act \in ParamVals, theta_cri \in ParamVals :
          IF variant = "AgentTD3"
          THEN /\ agent = AgentTD3_init(gamma, update_freq)
               /\ params = ParamsOf(theta_act, theta_cri)
          ELSE /\ update_freq = 1
               /\ theta_act = theta_cri
               /\ agent = AgentDQN_init(variant, gamma)
               /\ params = ParamsOf(theta_cri, theta_cri)
    /\ first_t \in 0..MaxT
    /\ last = NoCall
    /\ hist = <<>>
    /\ probe = NoProbe
    /\ twin = NoTwin

CallRaw(ag, p, t, idx, noise) ==
    CASE UpdateClass(ag.variant) = "AgentDQN" ->
            AgentDQN_update_objectives_raw(ag, p, t, idx)
      [] UpdateClass(ag.variant) = "AgentDoubleDQN" ->
            AgentDoubleDQN_update_objectives_raw(ag, p, t, idx)
      [] UpdateClass(ag.variant) = "AgentTD3" ->
            AgentTD3_update_objectives_raw(ag, p, t, idx, noise)

CallPer(ag, p, t, idx, noise) ==
    CASE UpdateClass(ag.variant) = "AgentDQN" ->
            AgentDQN_update_objectives_per(ag, p, t, idx)
      [] UpdateClass(ag.variant) = "AgentDoubleDQN" ->
            AgentDoubleDQN_update_objectives_per(ag, p, t, idx)
      [] UpdateClass(ag.variant) = "AgentTD3" ->
            AgentTD3_update_objectives_per(ag, p, t, idx, noise)

\* the draws a call does not reach are held at one value
UnusedDraws(t, start, batch_size, noise) ==
    /\ ~IsInstanceInt(t) => (start = 1 /\ batch_size = 1 /\ noise = 0)
    /\ agent.shared => noise = 0

Finish(path, t, idx, r) ==
    /\ params' = [act |-> r.act, cri |-> r.cri,
                  act_target |-> r.act_target, cri_target |-> r.cri_target]
    /\ last' = [path |-> path, update_t |-> t, batch_size |-> Len(idx),
                pre |-> params, res |-> r]
    /\ hist' = Append(hist, Outcome(t, r))
    /\ UNCHANGED <<agent, first_t, probe, twin>>

UpdateRaw ==
    /\ Len(hist) < MaxCalls
    /\ \E t \in UpdateTs, batch_size \in 1..MaxBatch, start \in Slots, noise \in NoiseVals :
          /\ UnusedDraws(t, start, batch_size, noise)
          /\ LET idx == Batch(start, batch_size)
                 r == CallRaw(agent, params, t, idx, Col([i \in 1..batch_size |-> noise]))
             IN  Finish("raw", t, idx, r)

UpdatePer ==
    /\ Len(hist) < MaxCalls
    /\ \E t \in UpdateTs, batch_size \in 1..MaxBatch, start \in Slots, noise \in NoiseVals :
          /\ UnusedDraws(t, start, batch_size, noise)
          /\ LET idx == Batch(start, batch_size)
                 r == CallPer(agent, params, t, idx, Col([i \in 1..batch_size |-> noise]))
             IN  Finish("per", t, idx, r)

Next == UpdateRaw \/ UpdatePer

Spec == Init /\ [][Next]_vars

-----------------------------------------------------------------------------
(* Two AgentTD3 agents side by side: the second is the first with other
   parameters in act_target, and every call is made on both with the same
   update_t, the same sampled batch and the same noise draw *)

ParamsAfter(r) ==
    [act |-> r.act, cri |-> r.cri,
     act_target |-> r.act_target, cri_target |-> r.cri_target]

InitTwin ==
    /\ \E gamma \in AgentGammas, update_freq \in 1..MaxFreq,
          theta_act \in ParamVals, theta_cri \in ParamVals,
          theta_other \in ParamVals :
          /\ theta_other # theta_act
          /\ agent = AgentTD3_init(gamma, update_freq)
          /\ params = ParamsOf(theta_act, theta_cri)
          /\ twin = [params |-> [ParamsOf(theta_act, theta_cri)
                                   EXCEPT !.act_target = theta_other],
                     last |-> NoCall]
    /\ first_t \in 0..MaxT
    /\ last = NoCall
    /\ hist = <<>>
    /\ probe = NoProbe

FinishTwin(path, t, idx, r, r_twin) ==
    /\ params' = ParamsAfter(r)
    /\ last' = [path |-> path, update_t |-> t, batch_size |-> Len(idx),
                pre |-> params, res |-> r]
    /\ hist' = Append(hist, Outcome(t, r))
    /\ twin' = [params |-> ParamsAfter(r_twin),
                last |-> [path |-> path, update_t |-> t, batch_size |-> Len(idx),
                          pre |-> twin.params, res |-> r_twin]]
    /\ UNCHANGED <<agent, first_t, probe>>

TwinUpdateRaw ==
    /\ Len(hist) < MaxCalls
    /\ \E t \in UpdateTs, batch_size \in 1..MaxBatch, start \in Slots, noise \in NoiseVals :
          /\ UnusedDraws(t, start, batch_size, noise)
          /\ LET idx == Batch(start, batch_size)
                 draw == Col([i \in 1..batch_size |-> noise])
             IN  FinishTwin("raw", t, idx,
                            AgentTD3_update_objectives_raw(agent, params, t, idx, draw),
                            AgentTD3_update_objectives_raw(agent, twin.params, t, idx, draw))

TwinUpdatePer ==
    /\ Len(hist) < MaxCalls
    /\ \E t \in UpdateTs, batch_size \in 1..MaxBatch, start \in Slots, noise \in NoiseVals :
          /\ UnusedDraws(t, start, batch_size, noise)
          /\ LET idx == Batch(start, batch_size)
                 draw == Col([i \in 1..batch_size |-> noise])
             IN  FinishTwin("per", t, idx,
                            AgentTD3_update_objectives_per(agent, params, t, idx, draw),
                            AgentTD3_update_objectives_per(agent, twin.params, t, idx, draw))

NextTwin == TwinUpdateRaw \/ TwinUpdatePer

SpecTwin == InitTwin /\ [][NextTwin]_vars

-----------------------------------------------------------------------------
(* The modules and the target rules on their own: each probe applies one of
   them to drawn inputs and keeps the inputs and the results *)

\* outputs a head can give, rewards, and head biases
HeadVals == {0 - Granule, Granule}
RewardVals == {0, Granule}
ProbeRows == 1..2

\* the regression target of a batch under the plain rule on either head and
\* under the twin rule; q1 and q2 are the target module's outputs [B, A]
ProbeTarget ==
    /\ probe = NoProbe
    /\ \E gamma \in GammaVals,
       reward \in [ProbeRows -> RewardVals], undone \in [ProbeRows -> {0, 1}],
       q1 \in [ProbeRows -> [1..ActionDim -> HeadVals]],
       q2 \in [ProbeRows -> [1..ActionDim -> HeadVals]] :
       /\ probe' = [op |-> "target", gamma |-> gamma,
                    reward |-> Vec(reward), undone |-> Vec(undone),
                    q1 |-> q1, q2 |-> q2,
                    label_q1 |-> QLabel(Vec(reward), Vec(undone), gamma, PlainNextQ(q1)),
                    label_q2 |-> QLabel(Vec(reward), Vec(undone), gamma, PlainNextQ(q2)),
                    label_twin |-> QLabel(Vec(reward), Vec(undone), gamma, TwinNextQ(q1, q2))]
       /\ UNCHANGED <<agent, params, first_t, last, hist, twin>>

\* QNetwork.get_action on one state
ProbeGetAction ==
    /\ probe = NoProbe
    /\ \E theta \in ParamVals, state \in {0, 1}, rate \in 0..RandDen,
       rand \in 0..(RandDen - 1), randint \in 0..(ActionDim - 1) :
       LET m == QNetworkOf(theta)
           got == QNetwork_get_action(m, <<(<<state>>)>>, rate, rand, <<(<<randint>>)>>)
       IN  /\ probe' = [op |-> "get_action", rate |-> rate, rand |-> rand,
                        randint |-> randint, q |-> QNetwork_forward(m, <<(<<state>>)>>),
                        branch |-> got.branch, action |-> got.action]
           /\ UNCHANGED <<agent, params, first_t, last, hist, twin>>

\* a dueling module with the biases of its heads drawn
DuelModule(val1, adv1, val2, adv2) ==
    [state_avg |-> 0, state_std |-> 1, net_state |-> Encoder,
     net_val  |-> [w |-> HeadGain(ActionDim), b |-> val1],
     net_adv  |-> [w |-> HeadGain(1), b |-> <<adv1>>],
     net_val1 |-> [w |-> HeadGain(ActionDim), b |-> val1],
     net_adv1 |-> [w |-> HeadGain(1), b |-> <<adv1>>],
     net_val2 |-> [w |-> HeadGain(ActionDim), b |-> val2],
     net_adv2 |-> [w |-> HeadGain(1), b |-> <<adv2>>]]

\* the outputs of the heads of a dueling module on `state`, as forward computes them
HeadOutputs(m, state) ==
    LET s_enc == Linear(m.net_state, QNetBase_state_norm(m, state))
    IN  [val1 |-> Linear(m.net_val1, s_enc), adv1 |-> Linear(m.net_adv1, s_enc),
         val2 |-> Linear(m.net_val2, s_enc), adv2 |-> Linear(m.net_adv2, s_enc)]

\* the dueling modules on one state, for two settings (x and y) of the heads:
\* out lists QNetDuel.forward, QNetTwinDuel.forward and the two results of
\* QNetTwinDuel.get_q1_q2; val and adv list the head outputs each was built from
DuelRun(m, state) ==
    LET h == HeadOutputs(m, state)
    IN  [out |-> <<QNetDuel_forward(m, state), QNetTwinDuel_forward(m, state),
                   QNetTwinDuel_get_q1_q2(m, state)[1],
                   QNetTwinDuel_get_q1_q2(m, state)[2]>>,
         val |-> <<h.val1, h.val1, h.val1, h.val2>>,
         adv |-> <<h.adv1, h.adv1, h.adv1, h.adv2>>]

ProbeDuel ==
    /\ probe = NoProbe
    /\ \E state \in {0, 1},
       xval \in [1..ActionDim -> HeadVals], xadv \in HeadVals,
       yval \in [1..ActionDim -> HeadVals], yadv \in HeadVals :
       /\ probe' = [op |-> "duel",
                    x |-> DuelRun(DuelModule(xval, xadv, yval, yadv), <<(<<state>>)>>),
                    y |-> DuelRun(DuelModule(yval, yadv, xval, xadv), <<(<<state>>)>>)]
       /\ UNCHANGED <<agent, params, first_t, last, hist, twin>>

\* the normalisation statistics and states for which (x - avg) / std is exact twice
StatVals == {[avg |-> 0, std |-> 1], [avg |-> Granule, std |-> 1],
             [avg |-> 0, std |-> 2], [avg |-> 2, std |-> 2]}
ProbeStates == {0, 4, 8, 10}
ExactNorm(x, st) ==
    /\ (x - st.avg) % st.std = 0
    /\ (((x - st.avg) \div st.std) - st.avg) % st.std = 0

\* CriticTwin.forward and CriticTwin.get_q_values on the same state and action
ProbeCritic ==
    /\ probe = NoProbe
    /\ \E st \in StatVals, state \in ProbeStates, action \in {0 - 1, 0, 1},
       bias \in [1..NumEnsembles -> {0, Granule}] :
       /\ ExactNorm(state, st)
       /\ LET m == [state_avg |-> st.avg, state_std |-> st.std,
                    net |-> [w |-> HeadGain(NumEnsembles), b |-> bias]]
              s == <<(<<state>>)>>
              a == <<(<<action>>)>>
          IN  probe' = [op |-> "critic", stats |-> st, state |-> state, action |-> action,
                        forward |-> CriticTwin_forward(m, s, a),
                        q_values |-> CriticTwin_get_q_values(m, s, a),
                        next_q |-> EnsembleNextQ(CriticTwin_get_q_values(m, s, a))]
       /\ UNCHANGED <<agent, params, first_t, last, hist, twin>>

InitNet ==
    /\ agent = AgentDQN_init("AgentDQN", 1)
    /\ params = ParamsOf(0, 0)
    /\ first_t = 0
    /\ last = NoCall
    /\ hist = <<>>
    /\ probe = NoProbe
    /\ twin = NoTwin

NextNet == ProbeTarget \/ ProbeGetAction \/ ProbeDuel \/ ProbeCritic

SpecNet == InitNet /\ [][NextNet]_vars

-----------------------------------------------------------------------------
(* Claims *)

Called == last.path # "none"

\* the entries of q_label that the loss pairs with the i-th sampled transition:
\* entry i of a 1-D label, row i of a 2-D label
LabelEntries(q_label, i) ==
    IF Rows(q_label) = 1
    THEN {q_label[1][BIdx(i, Cols(q_label))]}
    ELSE {q_label[i][j] : j \in 1..Cols(q_label)}

\* C1: in every agent variant and on both update paths, every sampled
\* transition with undone = 0 gets a regression target equal to its own reward
C1_TerminalTargetIsReward ==
    (Called /\ last.res.sampled # "none") =>
        /\ last.res.q_label # <<>>
        /\ \A i \in 1..last.batch_size :
              last.res.undone[1][i] = 0 =>
                 \A x \in LabelEntries(last.res.q_label, i) : x = last.res.reward[1][i]

\* the windows of n successive calls of the history
Windows(n) == {k \in 1..Len(hist) : k + n - 1 <= Len(hist)}
Window(k, n) == k..(k + n - 1)

\* C2: for AgentTD3 with update_freq = N, among any N calls with consecutive
\* integer update_t exactly one performs the actor step and returns an actor
\* objective that is not the sentinel, and every other one returns the sentinel
C2_OneActorStepPerWindow ==
    agent.variant = "AgentTD3" =>
        \A k \in Windows(agent.update_freq) :
           LET w == Window(k, agent.update_freq)
           IN  (\A c \in w : hist[c].update_t.kind = "int") =>
                  /\ Cardinality({c \in w : /\ hist[c].actor_step
                                            /\ hist[c].outcome = "ok"
                                            /\ ~hist[c].obj_actor.nan}) = 1
                  /\ \A c \in w : hist[c].actor_step \/ hist[c].obj_actor = NaN

\* C3: every sample_for_per is followed, before the next one, by exactly one
\* td_error_update_for_per carrying the is_index of that sampling call and the
\* per-sample loss of that batch
C3_FeedbackOncePerSample ==
    (Called /\ last.res.sampled = "sample_for_per") =>
        /\ Len(last.res.fed) = 1
        /\ last.res.fed[1].is_index = last.res.is_index
        /\ last.res.fed[1].td_error = last.res.td_error

\* the selection table: the module class of each discrete variant
SelectionTable(variant) ==
    CASE variant = "AgentDQN"        -> "QNetwork"
      [] variant = "AgentDoubleDQN"  -> "QNetTwin"
      [] variant = "AgentDuelingDQN" -> "QNetDuel"
      [] variant = "AgentD3QN"       -> "QNetTwinDuel"

\* C4: construction wires the module the selection table names into the
\* actor/critic role and its target copy, so the min-then-max rule of
\* AgentDoubleDQN and AgentD3QN finds get_q1_q2 on cri_target and act
C4_SelectionTableWired ==
    agent.variant # "AgentTD3" =>
        /\ agent.act = SelectionTable(agent.variant)
        /\ agent.cri = SelectionTable(agent.variant)
        /\ agent.act_target = SelectionTable(agent.variant)
        /\ agent.cri_target = SelectionTable(agent.variant)
        /\ UpdateClass(agent.variant) = "AgentDoubleDQN" =>
              (HasGetQ1Q2(agent.cri_target) /\ HasGetQ1Q2(agent.act))

\* C5: CriticTwin.forward(state, action) is the mean over the ensemble of
\* CriticTwin.get_q_values(state, action) for every setting of state_avg and
\* state_std; with identical heads the ensemble minimum, each head and the
\* forward value coincide
C5_ForwardIsEnsembleMean ==
    probe.op = "critic" =>
        /\ probe.forward = MeanDimLastKeep(probe.q_values)
        /\ (\A e \in 1..NumEnsembles : probe.q_values[1][e] = probe.q_values[1][1]) =>
              /\ probe.next_q[1][1] = probe.q_values[1][1]
              /\ probe.forward[1][1] = probe.q_values[1][1]

\* C6: QNetwork.get_action with explore_rate = 0 selects the argmax action for
\* every value of the random draw, and with explore_rate = 1 takes the random
\* branch for every value of the draw
C6_ExploreRateExtremes ==
    probe.op = "get_action" =>
        /\ probe.rate = 0 =>
              (probe.branch = "argmax" /\ probe.action = ArgmaxDim1Keep(probe.q))
        /\ probe.rate = RandDen => probe.branch = "randint"

DuelKinds == 1..4
Actions == 1..ActionDim

\* C7 as stated: the action-wise differences of the dueling output depend only
\* on the advantage head net_adv (same net_adv output, same differences), and
\* the value head net_val contributes a row-uniform offset
C7_DifferencesFromAdvHead ==
    probe.op = "duel" =>
        \A k \in DuelKinds :
           probe.x.adv[k] = probe.y.adv[k] =>
              \A a \in Actions, b \in Actions :
                 probe.x.out[k][1][a] - probe.x.out[k][1][b]
                    = probe.y.out[k][1][a] - probe.y.out[k][1][b]

\* C7 amended: the action-wise differences of the dueling output are those of
\* the per-action head net_val, and the scalar head net_adv contributes only
\* an offset that is the same for every action of the row
C7_DifferencesFromValHead ==
    probe.op = "duel" =>
        \A k \in DuelKinds :
           /\ \A a \in Actions, b \in Actions :
                 probe.x.out[k][1][a] - probe.x.out[k][1][b]
                    = probe.x.val[k][1][a] - probe.x.val[k][1][b]
           /\ probe.x.val[k] = probe.y.val[k] =>
                 \A a \in Actions :
                    probe.x.out[k][1][a] - probe.y.out[k][1][a]
                       = probe.x.adv[k][1][1] - probe.y.adv[k][1][1]

C7_Witness ==
    /\ probe.op = "duel"
    /\ \E k \in DuelKinds :
          /\ probe.x.val[k] = probe.y.val[k]
          /\ probe.x.adv[k] # probe.y.adv[k]
          /\ \E a \in Actions, b \in Actions : probe.x.val[k][1][a] # probe.x.val[k][1][b]

\* C8: target parameters change only through soft_update from their live
\* module: in every update call the critic target is soft-updated exactly once,
\* from the critic as the gradient step left it; the TD3 actor target is
\* soft-updated exactly in the calls with update_t % update_freq = 0 and is
\* unchanged, with the live actor, in every other call
C8_TargetsOnlySoftUpdated ==
    (Called /\ last.update_t.kind = "int") =>
        /\ Cardinality({i \in 1..Len(last.res.ops) : last.res.ops[i] = "cri_soft"}) = 1
        /\ params.cri_target = soft_update(last.pre.cri_target, params.cri)
        /\ agent.variant = "AgentTD3" =>
              IF last.update_t.val % agent.update_freq = 0
              THEN /\ Cardinality({i \in 1..Len(last.res.ops) :
                                      last.res.ops[i] = "act_soft"}) = 1
                   /\ params.act_target = soft_update(last.pre.act_target, params.act)
              ELSE /\ params.act_target = last.pre.act_target
                   /\ params.act = last.pre.act

\* C9: for one batch, undone in {0,1} and gamma in [0,1], the target of the
\* twin rule (max over actions of min(Q1, Q2)) is, for every transition, at
\* most the target from Q1 alone and at most the target from Q2 alone
C9_TwinTargetBelowSingle ==
    probe.op = "target" =>
        \A i \in ProbeRows :
           /\ probe.label_twin[1][i] <= probe.label_q1[1][i]
           /\ probe.label_twin[1][i] <= probe.label_q2[1][i]

C9_Witness ==
    /\ probe.op = "target"
    /\ \E i \in ProbeRows :
          /\ probe.undone[1][i] = 1
          /\ probe.label_twin[1][i] < probe.label_q1[1][i]
          /\ probe.label_twin[1][i] < probe.label_q2[1][i]

\* C10: an update call with a non-integer update_t is rejected with an error
\* before any computation: the buffer is not sampled, no priority feedback is
\* sent, and no live or target parameter changes
C10_NonIntegerRejected ==
    (Called /\ last.update_t.kind = "float") =>
        /\ last.res.outcome = "AssertionError"
        /\ last.res.sampled = "none"
        /\ last.res.fed = <<>>
        /\ last.res.ops = <<>>
        /\ params = last.pre

C10_Witness ==
    /\ Called
    /\ last.update_t.kind = "float"
    /\ last.path = "per"
    /\ agent.variant = "AgentTD3"
    /\ Len(hist) = 2
    /\ hist[1].outcome = "ok"

\* what a call leaves apart from the parameters of act_target
VisibleOf(r) == [r EXCEPT !.act_target = 0]

\* C11: in AgentTD3 act_target is written but never read by the update
\* paths: for two agents that differ only in the parameters of act_target and
\* receive the same batches, noise draws and update_t values, every returned
\* critic and actor objective and every parameter of the live actor, the live
\* critic and the critic target is the same after every call
C11_ActTargetNeverRead ==
    (Called /\ twin.last.path # "none") =>
        /\ last.res.outcome = twin.last.res.outcome
        /\ last.res.obj_critic = twin.last.res.obj_critic
        /\ last.res.obj_actor = twin.last.res.obj_actor
        /\ params.act = twin.params.act
        /\ params.cri = twin.params.cri
        /\ params.cri_target = twin.params.cri_target
        /\ VisibleOf(last.res) = VisibleOf(twin.last.res)

C11_Witness ==
    /\ Called
    /\ twin.last.path = "per"
    /\ Len(hist) = MaxCalls
    /\ last.res.outcome = "ok"
    /\ "act_soft" \in Range(last.res.ops)
    /\ last.res.undone[1][1] = 1
    /\ params.act_target # twin.params.act_target
    /\ last.pre.act_target # twin.last.pre.act_target

====
